---- MODULE Spec2Model ----
(***************************************************************************)
(* Model of the reward dialog (randomDistribute, RewardDialogForm and its  *)
(* onSubmit handler) and of the pull-request admin table                   *)
(* (PullRequestsTable).                                                    *)
(*                                                                         *)
(* Numbers.  JavaScript numbers are modelled as exact rationals:           *)
(*   - an amount is an integer count of 1/AmountDenom units;               *)
(*   - a value of Math.random() is an integer count of 1/CutDenom, taken   *)
(*     from 0 .. CutDenom-1, i.e. a point of [0,1);                        *)
(*   - a value rounded by _.round(x, 2) is an integer count of cents       *)
(*     (1/CentsPerUnit).                                                   *)
(* Three specifications share the variables: SpecSplit runs one call of    *)
(* randomDistribute, SpecForm runs the dialog, SpecTable runs the table.   *)
(***************************************************************************)
EXTENDS Integers, Sequences, FiniteSets, TLC

\* ---------------------------------------------------------------- bounds
\* Largest amount tried, in 1/AmountDenom units.
MaxAmount == 25
\* Resolution of the amounts tried: 1/AmountDenom.
AmountDenom == 1000
\* Resolution of the random cut points: Math.random() is k/CutDenom.
CutDenom == 10
\* Largest number of recipients passed to randomDistribute.
MaxPeople == 4
\* Largest users list of the dialog.
MaxUsers == 2
\* Largest allowance the distributor reports, in ToWei units.
MaxAllowance == 3
\* Largest totalCount the backend reports.
MaxTotal == 25

\* ------------------------------------------------------ program constants
\* _.round(x, 2): two decimals, so 100 cents to the unit.
CentsPerUnit == 100
\* amount * 1e18, counted in units of 1e16 wei.
WeiPerUnit == 100
\* const pageSize = 10
pageSize == 10

VARIABLES
    \* one call of randomDistribute(amount, people)
    amount,         \* argument, in 1/AmountDenom
    people,         \* argument
    draws,          \* the values Math.random() returned, in call order
    points,         \* local points
    rdAmounts,      \* local amounts, in cents
    diff,           \* local diff, in cents
    rdpc,           \* position in randomDistribute
    \* RewardDialogForm
    users,          \* prop users
    fieldValue,     \* the text of the amount input, after parsing
    amounts,        \* state amounts, in cents
    amountsFinite,  \* FALSE when amounts holds NaN / Infinity entries
    loading,        \* state loading
    isOpen,         \* state isOpen
    pc,             \* position in onSubmit
    currentAllowance, \* local of onSubmit
    totalAmount,    \* local of onSubmit
    githubIds,      \* local of onSubmit
    amountsInWei,   \* local of onSubmit
    toasts,         \* the toasts the current run of onSubmit has shown
    trace,          \* what the current run of onSubmit has done, in order
    \* PullRequestsTable
    page,
    searchTerm,
    statusFilter,
    data,           \* query data: [loaded, totalCount]
    fetching,       \* the query of the current key is in flight
    offset          \* offset passed to fetchPullRequests by the last queryFn

splitVars == <<amount, people, draws, points, rdAmounts, diff, rdpc>>
formVars == <<users, fieldValue, amounts, amountsFinite, loading, isOpen, pc,
              currentAllowance, totalAmount, githubIds, amountsInWei, toasts,
              trace>>
tableVars == <<page, searchTerm, statusFilter, data, fetching, offset>>
vars == <<splitVars, formVars, tableVars>>

\* ------------------------------------------------------------- helpers
RECURSIVE Sum(_)
\* _.sum(array)
Sum(s) == IF s = <<>> THEN 0 ELSE Head(s) + Sum(Tail(s))

\* Number of elements of s smaller than s[i], ties broken by position.
RankOf(s, i) ==
    Cardinality({j \in 1..Len(s) : s[j] < s[i] \/ (s[j] = s[i] /\ j < i)}) + 1

\* _.sortBy(array): ascending, stable.
sortBy(s) ==
    [k \in 1..Len(s) |-> s[CHOOSE i \in 1..Len(s) : RankOf(s, i) = k]]

\* _.times(n, f) calls f max(n, 0) times.
TimesCount(n) == IF n < 1 THEN 0 ELSE n

\* Math.floor in place of Math.round: the cents are truncated.
Round2Floor(num, den) == (CentsPerUnit * num) \div den

\* _.round(num/den, 2) in cents: Math.round is floor(x + 1/2).
Round2(num, den) == (2 * CentsPerUnit * num + den) \div (2 * den)

\* points.push(1); points.unshift(0) left out the unshift.
BoundariesNoUnshift(sorted) == sorted \o <<CutDenom>>

\* points after push(1) and unshift(0), in 1/CutDenom.
Boundaries(sorted) == <<0>> \o sorted \o <<CutDenom>>

\* points.slice(1).map((point, index) => point - points[index])
Fractions(pts) == [i \in 1..(Len(pts) - 1) |-> pts[i + 1] - pts[i]]

\* .map(fraction => _.round(fraction, 2)): the amount was left out.
ScaleNoAmount(a, fr) == [i \in 1..Len(fr) |-> Round2(fr[i], CutDenom)]

\* .map(fraction => _.round(amount * fraction, 2))
Scale(a, fr) == [i \in 1..Len(fr) |-> Round2(a * fr[i], AmountDenom * CutDenom)]

\* The residual correction left out.
ResidualZero(a, amts) == 0

\* _.round(amount - _.sum(amounts), 2)
Residual(a, amts) ==
    Round2(CentsPerUnit * a - AmountDenom * Sum(amts), CentsPerUnit * AmountDenom)

\* amounts[amounts.length - 1] += diff (on an empty array this sets the
\* property "-1" and leaves the elements alone).
AddToLast(amts, d) ==
    IF Len(amts) = 0 THEN amts ELSE [amts EXCEPT ![Len(amts)] = @ + d]

\* randomDistribute(amount, people) when Math.random() returns rnd.
randomDistribute(a, n, rnd) ==
    LET pts == Boundaries(sortBy(rnd))
        amts == Scale(a, Fractions(pts))
    IN  AddToLast(amts, Residual(a, amts))

\* The sequences of values Math.random() can return over n calls.
Draws(n) == [1..n -> 0..(CutDenom - 1)]

\* --------------------------------------------- idle values of each part
SplitIdle ==
    /\ amount = 0 /\ people = 1 /\ draws = <<>> /\ points = <<>>
    /\ rdAmounts = <<>> /\ diff = 0 /\ rdpc = "idle"

FormIdle ==
    /\ users = <<>> /\ fieldValue = [kind |-> "unset", units |-> 0]
    /\ amounts = <<>> /\ amountsFinite = TRUE
    /\ loading = FALSE /\ isOpen = FALSE /\ pc = "idle"
    /\ currentAllowance = 0 /\ totalAmount = 0
    /\ githubIds = <<>> /\ amountsInWei = <<>>
    /\ toasts = <<>> /\ trace = <<>>

TableIdle ==
    /\ page = 1 /\ searchTerm = "" /\ statusFilter = "all"
    /\ data = [loaded |-> FALSE, totalCount |-> 0]
    /\ fetching = FALSE /\ offset = 0

\* ======================================================================
\* randomDistribute, one call
\* ======================================================================
InitSplit ==
    /\ amount \in 0..MaxAmount
    /\ people \in 0..MaxPeople
    /\ draws = <<>> /\ points = <<>> /\ rdAmounts = <<>> /\ diff = 0
    /\ rdpc = "call"
    /\ FormIdle /\ TableIdle

\* _.times(people - 1, () => Math.random())
DrawPoints ==
    /\ rdpc = "call"
    /\ draws' \in Draws(TimesCount(people - 1))
    /\ rdpc' = "drawn"
    /\ UNCHANGED <<amount, people, points, rdAmounts, diff>>
    /\ UNCHANGED <<formVars, tableVars>>

\* _.sortBy(...), points.push(1), points.unshift(0)
BuildPoints ==
    /\ rdpc = "drawn"
    /\ points' = Boundaries(sortBy(draws))
    /\ rdpc' = "points"
    /\ UNCHANGED <<amount, people, draws, rdAmounts, diff>>
    /\ UNCHANGED <<formVars, tableVars>>

\* const amounts = points.slice(1).map(...).map(...)
ScaleShares ==
    /\ rdpc = "points"
    /\ rdAmounts' = Scale(amount, Fractions(points))
    /\ rdpc' = "scaled"
    /\ UNCHANGED <<amount, people, draws, points, diff>>
    /\ UNCHANGED <<formVars, tableVars>>

\* const diff = ...; amounts[amounts.length - 1] += diff; return amounts
AddResidual ==
    /\ rdpc = "scaled"
    /\ diff' = Residual(amount, rdAmounts)
    /\ rdAmounts' = AddToLast(rdAmounts, Residual(amount, rdAmounts))
    /\ rdpc' = "returned"
    /\ UNCHANGED <<amount, people, draws, points>>
    /\ UNCHANGED <<formVars, tableVars>>

NextSplit == DrawPoints \/ BuildPoints \/ ScaleShares \/ AddResidual

SpecSplit == InitSplit /\ [][NextSplit]_vars

\* ----------------------------------------------- claims on randomDistribute
\* amount rounded to 2 decimals, stated without Round2: the number of cents
\* c with c - 1/2 <= 100 * amount < c + 1/2.
NearestCents(a) ==
    CHOOSE c \in 0..((CentsPerUnit * a) \div AmountDenom + 1) :
        /\ 2 * c * AmountDenom - AmountDenom <= 2 * CentsPerUnit * a
        /\ 2 * CentsPerUnit * a < 2 * c * AmountDenom + AmountDenom

C2_SharesNonNegative ==
    (rdpc = "returned" /\ people >= 1) =>
        \A i \in 1..Len(rdAmounts) : rdAmounts[i] >= 0

\* C3: for amount >= 0 and count >= 1 the result has exactly count entries.
C3_LengthIsCount ==
    (rdpc = "returned" /\ people >= 1) => Len(rdAmounts) = people

\* C3 witness: a returned call with the largest count and distinct draws.
C3_Witness ==
    /\ rdpc = "returned" /\ people = MaxPeople /\ amount > 0
    /\ Len(draws) = MaxPeople - 1 /\ draws[1] > draws[2]

\* C4 as claimed: a call with count < 1 never returns a vector.
C4_RejectsCountBelowOne == people < 1 => rdpc # "returned"

C6_ZeroAmount ==
    (rdpc = "returned" /\ amount = 0 /\ people >= 1) =>
        rdAmounts = [i \in 1..people |-> 0]

\* C6 witness: amount 0 split among several recipients with distinct cuts.
C6_Witness ==
    /\ rdpc = "returned" /\ amount = 0 /\ people >= 3
    /\ draws[1] # draws[2]

\* ======================================================================
\* RewardDialogForm
\* ======================================================================
\* The users a list is made of: user.username may be empty.
UserKinds ==
    { [username |-> "", login |-> "bob"], [username |-> "alice", login |-> "al"] }

UserLists == UNION { [1..n -> UserKinds] : n \in 0..MaxUsers }

\* The decimals typed into the amount input, in 1/AmountDenom.
TypedUnits == {0, MaxAmount \div 2, MaxAmount}

\* What can be typed into the amount input:
\*   decimal  matches the formSchema regex, Number() is units/AmountDenom
\*   huge     matches the regex, Number() is Infinity (a very long integer)
\*   text     fails the regex, Number() is NaN
\*   empty    fails the regex, Number("") is 0
InputValues ==
    { [kind |-> "decimal", units |-> u] : u \in TypedUnits }
    \cup { [kind |-> k, units |-> 0] : k \in {"huge", "text", "empty"} }

\* Every array randomDistribute(u/AmountDenom, n) can return, over the values
\* Math.random() can take, for the amounts typed and the list lengths.
Distributions ==
    [u \in TypedUnits, n \in 0..MaxUsers |->
        { randomDistribute(u, n, rnd) : rnd \in Draws(TimesCount(n - 1)) }]

\* formSchema.amount: z.string().regex(/^(0|[1-9]\d*)(\.\d+)?$/)
MatchesSchema(v) == v.kind \in {"decimal", "huge"}

\* Number(newValue) is a finite number.
IsFiniteNumber(v) == v.kind \in {"decimal", "empty"}

\* Math.floor(amount * 1e18) for an amount in cents, in units of 1e16 wei.
ToWei(c) == (c * WeiPerUnit) \div CentsPerUnit

\* users.map((user) => user.username || user.login)
GithubIds(us) ==
    [i \in 1..Len(us) |-> IF us[i].username # "" THEN us[i].username ELSE us[i].login]

\* currentAllowance <= totalAmount in place of <.
NeedsApprovalOrEqual(allowance, total) == allowance <= total

\* if (currentAllowance < totalAmount)
NeedsApproval(allowance, total) == allowance < total

\* The toast of the catch block.
ErrorToast(isError) ==
    [variant |-> "destructive", title |-> "Error",
     description |-> IF isError THEN "error.name" ELSE "An unknown error occurred"]

\* The toast after a successful run.
SuccessToast ==
    [variant |-> "default", title |-> "Success", description |-> "Reward Granted"]

InitForm ==
    /\ users \in UserLists
    /\ fieldValue = [kind |-> "unset", units |-> 0]
    /\ amounts = [i \in 1..Len(users) |-> 0]
    /\ amountsFinite = TRUE
    /\ loading = FALSE /\ isOpen = FALSE /\ pc = "idle"
    /\ currentAllowance = 0 /\ totalAmount = 0
    /\ githubIds = <<>> /\ amountsInWei = <<>>
    /\ toasts = <<>> /\ trace = <<>>
    /\ SplitIdle /\ TableIdle

\* onOpenChange(isOpen): the trigger opens the dialog, Escape or a click
\* outside closes it (switchChain is a call into the wallet library).
onOpenChange ==
    /\ isOpen' = ~isOpen
    /\ UNCHANGED <<users, fieldValue, amounts, amountsFinite, loading, pc,
                   currentAllowance, totalAmount, githubIds, amountsInWei,
                   toasts, trace>>
    /\ UNCHANGED <<splitVars, tableVars>>

\* The amount input's onChange; the form is rendered while the dialog is
\* open and loading is false.
onChange ==
    /\ isOpen /\ ~loading
    /\ \E v \in InputValues :
        /\ fieldValue' = v
        /\ amounts' \in Distributions[v.units, Len(users)]
        /\ amountsFinite' = IsFiniteNumber(v)
    /\ UNCHANGED <<users, loading, isOpen, pc, currentAllowance, totalAmount,
                   githubIds, amountsInWei, toasts, trace>>
    /\ UNCHANGED <<splitVars, tableVars>>

\* catch (error) { toast(...) } finally { setLoading(false) }, without the
\* finally block.
CatchNoFinally(done, isError) ==
    /\ trace' = done \o <<"toast">>
    /\ toasts' = Append(toasts, ErrorToast(isError))
    /\ pc' = "idle"
    /\ UNCHANGED loading

\* catch (error) { toast(...) } finally { setLoading(false) }
CatchFinally(done, isError) ==
    /\ trace' = done \o <<"toast">>
    /\ toasts' = Append(toasts, ErrorToast(isError))
    /\ loading' = FALSE
    /\ pc' = "idle"

\* form.handleSubmit(onSubmit) up to the first await: the field passes the
\* schema, the amounts convert, getAllowance is called.
onSubmit ==
    /\ isOpen /\ ~loading /\ pc = "idle"
    /\ MatchesSchema(fieldValue)
    /\ amountsFinite
    /\ loading' = TRUE
    /\ githubIds' = GithubIds(users)
    /\ amountsInWei' = [i \in 1..Len(amounts) |-> ToWei(amounts[i])]
    /\ totalAmount' = Sum(amountsInWei')
    /\ trace' = <<"getAllowance">>
    /\ toasts' = <<>>
    /\ pc' = "getAllowance"
    /\ UNCHANGED <<users, fieldValue, amounts, amountsFinite, isOpen,
                   currentAllowance>>
    /\ UNCHANGED <<splitVars, tableVars>>

\* onSubmit when an amount is NaN or Infinity: BigInt() throws a RangeError
\* before any call is made; catch and finally run at once.
onSubmitThrows ==
    /\ isOpen /\ ~loading /\ pc = "idle"
    /\ MatchesSchema(fieldValue)
    /\ ~amountsFinite
    /\ githubIds' = GithubIds(users)
    /\ trace' = <<"toast">>
    /\ toasts' = <<ErrorToast(TRUE)>>
    /\ loading' = FALSE
    /\ pc' = "idle"
    /\ UNCHANGED <<users, fieldValue, amounts, amountsFinite, isOpen,
                   currentAllowance, totalAmount, amountsInWei>>
    /\ UNCHANGED <<splitVars, tableVars>>

\* await distributor.getAllowance(addressFrom) resolves; the run goes on to
\* approveAllowance or straight to createRedPacket.
getAllowanceResolves ==
    /\ pc = "getAllowance"
    /\ \E a \in 0..MaxAllowance :
        /\ currentAllowance' = a
        /\ IF NeedsApproval(a, totalAmount)
           THEN /\ trace' = trace \o <<"getAllowance:ok", "approveAllowance">>
                /\ pc' = "approveAllowance"
           ELSE /\ trace' = trace \o <<"getAllowance:ok", "createRedPacket">>
                /\ pc' = "createRedPacket"
    /\ UNCHANGED <<users, fieldValue, amounts, amountsFinite, loading, isOpen,
                   totalAmount, githubIds, amountsInWei, toasts>>
    /\ UNCHANGED <<splitVars, tableVars>>

\* await distributor.approveAllowance(...) resolves; createRedPacket is called.
approveAllowanceResolves ==
    /\ pc = "approveAllowance"
    /\ trace' = trace \o <<"approveAllowance:ok", "createRedPacket">>
    /\ pc' = "createRedPacket"
    /\ UNCHANGED <<users, fieldValue, amounts, amountsFinite, loading, isOpen,
                   currentAllowance, totalAmount, githubIds, amountsInWei,
                   toasts>>
    /\ UNCHANGED <<splitVars, tableVars>>

\* await distributor.createRedPacket(...) resolves; postGrantPeriodRewards
\* is called.
createRedPacketResolves ==
    /\ pc = "createRedPacket"
    /\ trace' = trace \o <<"createRedPacket:ok", "postGrantPeriodRewards">>
    /\ pc' = "postGrantPeriodRewards"
    /\ UNCHANGED <<users, fieldValue, amounts, amountsFinite, loading, isOpen,
                   currentAllowance, totalAmount, githubIds, amountsInWei,
                   toasts>>
    /\ UNCHANGED <<splitVars, tableVars>>

\* await postGrantPeriodRewards({ id }) resolves: setOpen(false), the success
\* toast, finally setLoading(false).
postGrantPeriodRewardsResolves ==
    /\ pc = "postGrantPeriodRewards"
    /\ isOpen' = FALSE
    /\ trace' = trace \o <<"postGrantPeriodRewards:ok", "setOpen(false)", "toast">>
    /\ toasts' = Append(toasts, SuccessToast)
    /\ loading' = FALSE
    /\ pc' = "idle"
    /\ UNCHANGED <<users, fieldValue, amounts, amountsFinite, currentAllowance,
                   totalAmount, githubIds, amountsInWei>>
    /\ UNCHANGED <<splitVars, tableVars>>

\* The awaited call rejects, with an Error or with some other value.
awaitRejects ==
    /\ pc \in {"getAllowance", "approveAllowance", "createRedPacket",
               "postGrantPeriodRewards"}
    /\ \E isError \in BOOLEAN :
        CatchFinally(Append(trace, pc \o ":fail"), isError)
    /\ UNCHANGED <<users, fieldValue, amounts, amountsFinite, isOpen,
                   currentAllowance, totalAmount, githubIds, amountsInWei>>
    /\ UNCHANGED <<splitVars, tableVars>>

NextForm ==
    \/ onOpenChange
    \/ onChange
    \/ onSubmit
    \/ onSubmitThrows
    \/ getAllowanceResolves
    \/ approveAllowanceResolves
    \/ createRedPacketResolves
    \/ postGrantPeriodRewardsResolves
    \/ awaitRejects

SpecForm == InitForm /\ [][NextForm]_vars

\* --------------------------------------------------- claims on onSubmit
\* The event e is in the current run's trace.
Did(e) == \E i \in 1..Len(trace) : trace[i] = e

\* How many times e is in the current run's trace.
Times(e) == Cardinality({i \in 1..Len(trace) : trace[i] = e})

\* Every e1 in the trace comes before every e2.
Before(e1, e2) ==
    \A i, j \in 1..Len(trace) : (trace[i] = e1 /\ trace[j] = e2) => i < j

\* The external calls of onSubmit, in the order of the code.
CallSeq ==
    <<"getAllowance", "approveAllowance", "createRedPacket",
      "postGrantPeriodRewards">>

\* A run of onSubmit has ended.
RunEnded == pc = "idle" /\ trace # <<>>

\* The order of the calls of a run, as far as it has got.
CallOrder ==
    /\ \A k \in 1..Len(CallSeq) : Times(CallSeq[k]) <= 1
    /\ (\E k \in 1..Len(CallSeq) : Did(CallSeq[k])) => trace[1] = "getAllowance"
    /\ Did("approveAllowance") <=>
          (Did("getAllowance:ok") /\ currentAllowance < totalAmount)
    /\ Did("approveAllowance") => Before("getAllowance:ok", "approveAllowance")
    /\ Did("createRedPacket") =>
          /\ Did("getAllowance:ok")
          /\ Before("getAllowance:ok", "createRedPacket")
          /\ Did("approveAllowance") =>
                (Did("approveAllowance:ok")
                  /\ Before("approveAllowance:ok", "createRedPacket"))
    /\ Did("postGrantPeriodRewards") <=> Did("createRedPacket:ok")
    /\ Before("createRedPacket:ok", "postGrantPeriodRewards")
    /\ Did("setOpen(false)") <=> Did("postGrantPeriodRewards:ok")
    /\ Before("postGrantPeriodRewards:ok", "setOpen(false)")
    /\ (\E i \in 1..Len(toasts) : toasts[i].title = "Success") <=>
          Did("postGrantPeriodRewards:ok")
    /\ Did("postGrantPeriodRewards:ok") =>
          /\ trace[Len(trace)] = "toast"
          /\ Before("setOpen(false)", "toast")

\* C7 as claimed: the calls are made in order and every run of onSubmit
\* calls createRedPacket exactly once.
C7_CreateOnceInEveryRun ==
    /\ CallOrder
    /\ (RunEnded /\ Did("getAllowance")) => Times("createRedPacket") = 1

\* C7 amended: the calls are made in order; createRedPacket is called at most
\* once, and exactly once in the runs in which getAllowance, and
\* approveAllowance when it was called, succeeded.
C7_CallOrder ==
    /\ CallOrder
    /\ Did("createRedPacket") <=>
          /\ Did("getAllowance:ok")
          /\ Did("approveAllowance") => Did("approveAllowance:ok")

\* C7 witness: a run that needed the approval and succeeded.
C7_Witness ==
    /\ RunEnded /\ Did("approveAllowance") /\ Did("postGrantPeriodRewards:ok")
    /\ Len(users) >= 2 /\ totalAmount > 0

\* C8: when one of the four calls fails, no later call is made, onSubmit
\* does not close the dialog, one destructive Error toast and no Success
\* toast is shown and loading is false again; loading is false after a
\* successful run too.
C8_FailureHandling ==
    /\ \A k \in 1..Len(CallSeq) :
          Did(CallSeq[k] \o ":fail") =>
              /\ RunEnded
              /\ \A m \in (k + 1)..Len(CallSeq) : ~Did(CallSeq[m])
              /\ trace[Len(trace) - 1] = CallSeq[k] \o ":fail"
              /\ trace[Len(trace)] = "toast"
              /\ ~Did("setOpen(false)")
              /\ Len(toasts) = 1
              /\ toasts[1].variant = "destructive"
              /\ toasts[1].title = "Error"
              /\ loading = FALSE
    /\ RunEnded => loading = FALSE

\* C8 witness: createRedPacket failed after an approval, and the run ended.
C8_Witness ==
    /\ Did("createRedPacket:fail") /\ Did("approveAllowance:ok")
    /\ RunEnded /\ isOpen

\* C10 as claimed: amounts always has users.length entries, and
\* createRedPacket is called with two lists of equal length.
C10_AmountsMatchUsers ==
    /\ Len(amounts) = Len(users)
    /\ Did("createRedPacket") => Len(githubIds) = Len(amountsInWei)

\* ======================================================================
\* PullRequestsTable
\* ======================================================================
\* The texts typed into the filter input.
SearchTerms == {"", "fix"}

\* The values of the status select.
StatusFilters == {"all", "open", "closed"}

\* Math.ceil(x / pageSize) for x >= 0
CeilDiv(x, d) == (x + d - 1) \div d

\* const totalPages = Math.ceil((data?.pagination.totalCount || 0) / pageSize)
totalPages == IF data.loaded THEN CeilDiv(data.totalCount, pageSize) ELSE 0

\* isLoading of useQuery: no data yet (keepPreviousData keeps the data of
\* the previous key while the next key is fetched).
isLoading == ~data.loaded

Max(a, b) == IF a >= b THEN a ELSE b

Min(a, b) == IF a <= b THEN a ELSE b

\* The query key changed: queryFn calls fetchPullRequests with the offset
\* of the new page.
queryFn(newPage) ==
    /\ fetching' = TRUE
    /\ offset' = (newPage - 1) * pageSize

InitTable ==
    /\ page = 1 /\ searchTerm = "" /\ statusFilter = "all"
    /\ data = [loaded |-> FALSE, totalCount |-> 0]
    /\ fetching = TRUE
    /\ offset = 0
    /\ SplitIdle /\ FormIdle

\* fetchPullRequests resolves with pagination.totalCount = tc.
queryResult ==
    /\ fetching
    /\ \E tc \in 0..MaxTotal : data' = [loaded |-> TRUE, totalCount |-> tc]
    /\ fetching' = FALSE
    /\ UNCHANGED <<page, searchTerm, statusFilter, offset>>
    /\ UNCHANGED <<splitVars, formVars>>

\* onClick={() => setPage(1)}, disabled={page === 1}
clickFirst ==
    /\ ~isLoading /\ page # 1
    /\ page' = 1
    /\ queryFn(page')
    /\ UNCHANGED <<searchTerm, statusFilter, data>>
    /\ UNCHANGED <<splitVars, formVars>>

\* onClick={() => setPage((p) => Math.max(1, p - 1))}, disabled={page === 1}
clickPrevious ==
    /\ ~isLoading /\ page # 1
    /\ page' = Max(1, page - 1)
    /\ queryFn(page')
    /\ UNCHANGED <<searchTerm, statusFilter, data>>
    /\ UNCHANGED <<splitVars, formVars>>

\* onClick={() => setPage((p) => Math.min(totalPages, p + 1))},
\* disabled={page === totalPages}
clickNext ==
    /\ ~isLoading /\ page # totalPages
    /\ page' = Min(totalPages, page + 1)
    /\ queryFn(page')
    /\ UNCHANGED <<searchTerm, statusFilter, data>>
    /\ UNCHANGED <<splitVars, formVars>>

\* onClick={() => setPage(totalPages)}, disabled={page === totalPages}
clickLast ==
    /\ ~isLoading /\ page # totalPages
    /\ page' = totalPages
    /\ queryFn(page')
    /\ UNCHANGED <<searchTerm, statusFilter, data>>
    /\ UNCHANGED <<splitVars, formVars>>

\* onChange={(e) => setSearchTerm(e.target.value)}
setSearchTerm ==
    /\ ~isLoading
    /\ \E t \in SearchTerms \ {searchTerm} : searchTerm' = t
    /\ queryFn(page)
    /\ UNCHANGED <<page, statusFilter, data>>
    /\ UNCHANGED <<splitVars, formVars>>

\* onValueChange={setStatusFilter}
setStatusFilter ==
    /\ ~isLoading
    /\ \E f \in StatusFilters \ {statusFilter} : statusFilter' = f
    /\ queryFn(page)
    /\ UNCHANGED <<page, searchTerm, data>>
    /\ UNCHANGED <<splitVars, formVars>>

NextTable ==
    \/ queryResult
    \/ clickFirst
    \/ clickPrevious
    \/ clickNext
    \/ clickLast
    \/ setSearchTerm
    \/ setStatusFilter

SpecTable == InitTable /\ [][NextTable]_vars

\* C9 as claimed: page is always >= 1 and the offset sent to
\* fetchPullRequests is never negative.
C9_PageAtLeastOne == page >= 1 /\ offset >= 0

====
